---- MODULE Spec2Model ----
(***************************************************************************)
(* A model of the install pipeline of app-hub                              *)
(* (src-tauri/src/commands/app_image_commands.rs, install_app).            *)
(*                                                                         *)
(* Each invocation of install_app is a process that walks through the      *)
(* statements of the function; every call of a helper that reads or writes *)
(* the file system is one step, so that two invocations interleave exactly *)
(* at the places where the host's async runtime can interleave them.       *)
(* Paths are sequences of components and separators, so that               *)
(* format!("{}{}", a, b) and PathBuf::join are different operations.       *)
(* Option<T> is <<>> (None) or <<x>> (Some(x)).                            *)
(***************************************************************************)
EXTENDS Integers, Sequences, FiniteSets, TLC

\* ------------------------------------------------------------------ bounds

\* The number of install_app invocations the host starts in one run.
MaxInstalls == 2

\* ------------------------------------------------------------- Option<T>

None == <<>>

Some(x) == <<x>>

is_some(o) == o # None

unwrap(o) == o[1]

\* ----------------------------------------------------------------- paths

Sep == "/"

\* PathBuf::file_name: the last component of the path.
file_name(p) == p[Len(p)]

\* PathBuf::parent: the path without its last component and the separator
\* before it (the root stays the root).
parent(p) == IF Len(p) <= 2 THEN <<Sep>> ELSE SubSeq(p, 1, Len(p) - 2)

\* PathBuf::join: exactly one separator between the directory and the name.
PathJoin(dir, name) ==
    IF Len(dir) > 0 /\ dir[Len(dir)] = Sep THEN dir \o <<name>>
    ELSE dir \o <<Sep, name>>

\* squashfs_path: the directory of the package file joined with
\* "squashfs-root".
squashfs_path(fp) == PathJoin(parent(fp), "squashfs-root")

\* ------------------------------------------------------------------ data

\* The package files the user can select.  name is the Name of the
\* descriptor embedded in the package (None: the descriptor carries none),
\* icon the icon asset of its content tree.
PkgApp == [path |-> <<Sep, "tmp", Sep, "App.AppImage">>,
           name |-> Some("App"), icon |-> "app.png"]

PkgOther == [path |-> <<Sep, "tmp", Sep, "Other.AppImage">>,
             name |-> Some("Other"), icon |-> "other.png"]

PkgAppCopy == [path |-> <<Sep, "dl", Sep, "App.AppImage">>,
               name |-> Some("App"), icon |-> "app.png"]

PkgNoName == [path |-> <<Sep, "dl", Sep, "NoName.AppImage">>,
              name |-> None, icon |-> "noname.png"]

\* Another application shipped under the file name of PkgApp.
PkgAppBeta == [path |-> <<Sep, "opt", Sep, "App.AppImage">>,
               name |-> Some("AppBeta"), icon |-> "beta.png"]

Packages == {PkgApp, PkgOther, PkgAppCopy, PkgNoName, PkgAppBeta}

PackageAt(fp) == CHOOSE p \in Packages : p.path = fp

Names == {unwrap(p.name) : p \in {q \in Packages : is_some(q.name)}}

ScratchRoots == {squashfs_path(p.path) : p \in Packages}

\* RequestInstallation {file_path, no_sandbox: Option<bool>}.
Requests == [file_path : {p.path : p \in Packages},
             no_sandbox : {None, Some(TRUE), Some(FALSE)}]

\* What the settings service can answer: Err, or Ok(settings) whose
\* install_path is None or a directory stored with or without a trailing
\* separator.
AppsDirSlash == <<Sep, "home", Sep, "u", Sep, "Apps", Sep>>

AppsDirNoSlash == <<Sep, "home", Sep, "u", Sep, "Apps">>

SettingsAnswers ==
    {[tag |-> "Err", install_path |-> None],
     [tag |-> "Ok", install_path |-> None],
     [tag |-> "Ok", install_path |-> Some(AppsDirSlash)],
     [tag |-> "Ok", install_path |-> Some(AppsDirNoSlash)]}

Installers == {1, 2}

Stages == <<"PermissionGrant", "DescriptorExtraction", "ContentExtraction",
            "IconInstall", "DescriptorRewrite", "DescriptorPersist",
            "BinaryInstall", "Cleanup">>

StageIndex(s) == CHOOSE k \in 1..Len(Stages) : Stages[k] = s

NoResult == [tag |-> "None", msg |-> ""]

Ok(m) == [tag |-> "Ok", msg |-> m]

Err(m) == [tag |-> "Err", msg |-> m]

\* A panic (unwrap of None, expect of Err): the command's task dies and no
\* Result reaches the caller.
Panic(m) == [tag |-> "Panic", msg |-> m]

NoBuilder == [name |-> None, exec |-> <<>>, icon |-> "", no_sandbox |-> FALSE]

NoRequest == [file_path |-> <<>>, no_sandbox |-> None]

EmptyRoot == [exists |-> FALSE, desktops |-> {}, content |-> {}]

\* ----------------------------------------------------------------- state

VARIABLES
    settings,      \* the answer of read_settings
    fileExec,      \* the package files that carry the executable bit
    scratch,       \* squashfs-root directories: what they hold
    icons,         \* the icons in the shell's icon directory
    regDir,        \* registration directory: name -> Option<descriptor file>
    binaries,      \* the files in the install directory
    started,       \* install_app invocations started so far
    pc,            \* per invocation: the statement it is at
    req,           \* per invocation: request_installation
    inst_path,     \* per invocation: apps_installation_path
    found,         \* per invocation: desktop_file_path (the package it is of)
    builder,       \* per invocation: desktop_builder
    result,        \* per invocation: what the caller got
    atBegin,       \* per invocation: the registration and install directories
                   \* it began with
    trace          \* per invocation: the stages run and how each ended

VARIABLES
    ustarted,      \* uninstall_app invocations started so far
    upc,           \* uninstall_app: where it is
    app,           \* uninstall_app: the name of its argument
    desktop_entry, \* uninstall_app: what find_desktop_entry answered
    app_removed,   \* uninstall_app: Option<bool>, the binary's removal
    icon_removed,  \* uninstall_app: Option<bool>, the icon's removal
    uresult,       \* uninstall_app: what the caller got
    uBegin,        \* uninstall_app: the files there were when it began
    utrace         \* uninstall_app: the removals attempted and how each ended

uninstallVars == <<ustarted, upc, app, desktop_entry, app_removed,
                   icon_removed, uresult, uBegin, utrace>>

VARIABLES
    store,         \* app_database.bin: Option<Value> under "app_database"
    calls,         \* store_service calls made so far
    last_call,     \* the store_service function called last
    last_fetch,    \* what fetch_all_apps_from_app_hub answered to the last
                   \* update_app_database that returned
    update_result, \* what the last update_app_database answered
    get_result     \* what the last get_app_list answered

storeVars == <<store, calls, last_call, last_fetch, update_result, get_result>>

installVars == <<settings, fileExec, scratch, started, pc, req, inst_path,
                 found, builder, result, atBegin, trace>>

\* What no step of install_app touches.
outsideInstall == <<uninstallVars, storeVars>>

vars == <<settings, fileExec, scratch, icons, regDir, binaries, started,
          pc, req, inst_path, found, builder, result, atBegin, trace,
          uninstallVars, storeVars>>

fsVars == <<fileExec, scratch, icons, regDir, binaries>>

NoEntry == [exec |-> <<>>, icon_path |-> ""]

\* What a get_app_list has answered: nothing yet, Ok(AppDatabase), Err.
NoList == [tag |-> "None", msg |-> "", app_list |-> <<>>]

OkList(l) == [tag |-> "Ok", msg |-> "", app_list |-> l]

ErrList(m) == [tag |-> "Err", msg |-> m, app_list |-> <<>>]

\* What a fetch has answered: nothing yet, Ok(AppDatabase), Err.
NoFetch == [tag |-> "None", app_list |-> <<>>]

NoFiles == [regDir |-> [n \in Names |-> None], binaries |-> {}, icons |-> {}]

Init ==
    /\ settings \in SettingsAnswers
    /\ fileExec = {}
    /\ scratch = [d \in ScratchRoots |-> EmptyRoot]
    /\ icons = {}
    /\ regDir = [n \in Names |-> None]
    /\ binaries = {}
    /\ started = 0
    /\ pc = [i \in Installers |-> "idle"]
    /\ req = [i \in Installers |-> NoRequest]
    /\ inst_path = [i \in Installers |-> <<>>]
    /\ found = [i \in Installers |-> None]
    /\ builder = [i \in Installers |-> NoBuilder]
    /\ result = [i \in Installers |-> NoResult]
    /\ atBegin = [i \in Installers |->
                     [regDir |-> [n \in Names |-> None], binaries |-> {}]]
    /\ trace = [i \in Installers |-> <<>>]
    /\ ustarted = 0
    /\ upc = "idle"
    /\ app = ""
    /\ desktop_entry = NoEntry
    /\ app_removed = None
    /\ icon_removed = None
    /\ uresult = NoResult
    /\ uBegin = NoFiles
    /\ utrace = <<>>
    /\ store = None
    /\ calls = 0
    /\ last_call = "none"
    /\ last_fetch = NoFetch
    /\ update_result = NoResult
    /\ get_result = NoList

\* --------------------------------------------------------------- helpers

Ran(i, stage, ok) == Append(trace[i], [stage |-> stage, ok |-> ok])

\* The invocation ends: the caller gets r (or nothing, when r is a panic).
Finish(i, r) ==
    /\ pc' = [pc EXCEPT ![i] = "done"]
    /\ result' = [result EXCEPT ![i] = r]
    /\ UNCHANGED <<atBegin, outsideInstall>>

Goto(i, label) ==
    /\ pc' = [pc EXCEPT ![i] = label]
    /\ UNCHANGED <<result, atBegin, outsideInstall>>

\* add_executable_permission: the file carries the executable bit afterwards
\* unless the change of mode failed.
add_executable_permission(fp, ok) ==
    IF ok THEN fileExec \cup {fp} ELSE fileExec

\* app_image_extract_desktop_file: the package's descriptor is put into
\* squashfs-root beside the package file.
app_image_extract_desktop_file(fp) ==
    [scratch EXCEPT ![squashfs_path(fp)] =
        [@ EXCEPT !.exists = TRUE, !.desktops = @ \cup {PackageAt(fp)}]]

\* app_image_extract_all: the package's whole content tree is put into
\* squashfs-root beside the package file.
app_image_extract_all(fp) ==
    [scratch EXCEPT ![squashfs_path(fp)] =
        [@ EXCEPT !.exists = TRUE,
                  !.desktops = @ \cup {PackageAt(fp)},
                  !.content = @ \cup {PackageAt(fp)}]]

\* DesktopFileBuilder::from_desktop_entry_path(path, false): the lenient parse
\* keeps the name the descriptor carries (None when it carries none).
from_desktop_entry_path(p) ==
    [name |-> p.name, exec |-> <<"AppRun">>, icon |-> p.icon,
     no_sandbox |-> FALSE]

\* DesktopFileBuilder::set_exec.
set_exec(b, e) == [b EXCEPT !.exec = e]

\* DesktopFileBuilder::set_no_sandbox.
set_no_sandbox(b, v) == [b EXCEPT !.no_sandbox = v]

\* The serialized Exec value: the no-sandbox token is appended once when the
\* flag is set.
SerializeExec(b) ==
    IF b.no_sandbox THEN b.exec \o <<" ", "--no-sandbox">> ELSE b.exec

\* The descriptor file write_to_file creates, as written by invocation i.
DescriptorFile(b, i, old) ==
    [name |-> unwrap(b.name), exec |-> SerializeExec(b), icon |-> b.icon,
     writers |-> IF is_some(old) THEN unwrap(old).writers \cup {i} ELSE {i}]

\* The path an Exec value launches: the value up to its first argument.
ExecTarget(e) ==
    IF \E k \in 1..Len(e) : e[k] = " "
    THEN SubSeq(e, 1, (CHOOSE k \in 1..Len(e) :
                          e[k] = " " /\ \A j \in 1..(k - 1) : e[j] # " ") - 1)
    ELSE e

\* install_app_image: where the package file is put.
InstalledBinaryPath(install_path, fp) == PathJoin(install_path, file_name(fp))

\* The exec install_app gives the descriptor (lines 113-117).
ExecPath(install_path, name) == install_path \o <<name>>

\* Line 130 without its second conjunct: Some(false) sets the flag too.
NoSandboxRequested_AnySome(r) == is_some(r.no_sandbox)

\* The condition of line 130.
NoSandboxRequested(r) == is_some(r.no_sandbox) /\ unwrap(r.no_sandbox)

\* ------------------------------------------------------------ install_app

\* Lines 14-22 with the outcome of add_executable_permission looked at: a
\* failed change of mode is returned as an error.
install_app_begin_fatal(i) ==
    /\ pc[i] \in {"idle", "done"}
    /\ started < MaxInstalls
    /\ started' = started + 1
    /\ \E r \in Requests, ok \in BOOLEAN :
         /\ req' = [req EXCEPT ![i] = r]
         /\ fileExec' = add_executable_permission(r.file_path, ok)
         /\ trace' = [trace EXCEPT ![i] =
                         <<[stage |-> "PermissionGrant", ok |-> ok]>>]
         /\ pc' = [pc EXCEPT ![i] = IF ok THEN "read_settings" ELSE "done"]
         /\ result' = [result EXCEPT ![i] =
                          IF ok THEN NoResult ELSE Err("PreconditionError")]
    /\ inst_path' = [inst_path EXCEPT ![i] = <<>>]
    /\ found' = [found EXCEPT ![i] = None]
    /\ builder' = [builder EXCEPT ![i] = NoBuilder]
    /\ atBegin' = [atBegin EXCEPT ![i] =
                       [regDir |-> regDir, binaries |-> binaries]]
    /\ UNCHANGED <<settings, scratch, icons, regDir, binaries, outsideInstall>>

\* Lines 14-22: the command is invoked; the package file is made executable
\* and the outcome of that is not looked at.
install_app_begin(i) ==
    /\ pc[i] \in {"idle", "done"}
    /\ started < MaxInstalls
    /\ started' = started + 1
    /\ \E r \in Requests, ok \in BOOLEAN :
         /\ req' = [req EXCEPT ![i] = r]
         /\ fileExec' = add_executable_permission(r.file_path, ok)
         /\ trace' = [trace EXCEPT ![i] =
                         <<[stage |-> "PermissionGrant", ok |-> ok]>>]
    /\ pc' = [pc EXCEPT ![i] = "read_settings"]
    /\ inst_path' = [inst_path EXCEPT ![i] = <<>>]
    /\ found' = [found EXCEPT ![i] = None]
    /\ builder' = [builder EXCEPT ![i] = NoBuilder]
    /\ result' = [result EXCEPT ![i] = NoResult]
    /\ atBegin' = [atBegin EXCEPT ![i] =
                       [regDir |-> regDir, binaries |-> binaries]]
    /\ UNCHANGED <<settings, scratch, icons, regDir, binaries, outsideInstall>>

\* Lines 25-31, read_settings answered Err.
read_settings_err(i) ==
    /\ pc[i] = "read_settings"
    /\ settings.tag = "Err"
    /\ Finish(i, Err("settings"))
    /\ UNCHANGED <<settings, fsVars, started, req, inst_path, found, builder,
                   trace>>

\* Line 26, install_path is None: unwrap panics.
read_settings_none(i) ==
    /\ pc[i] = "read_settings"
    /\ settings.tag = "Ok"
    /\ ~is_some(settings.install_path)
    /\ Finish(i, Panic("unwrap on None: install_path"))
    /\ UNCHANGED <<settings, fsVars, started, req, inst_path, found, builder,
                   trace>>

\* Line 26, install_path is Some.
read_settings_ok(i) ==
    /\ pc[i] = "read_settings"
    /\ settings.tag = "Ok"
    /\ is_some(settings.install_path)
    /\ inst_path' = [inst_path EXCEPT ![i] = unwrap(settings.install_path)]
    /\ Goto(i, "extract_desktop")
    /\ UNCHANGED <<settings, fsVars, started, req, found, builder, trace>>

\* Lines 40-47.
extract_desktop_ok(i) ==
    /\ pc[i] = "extract_desktop"
    /\ scratch' = app_image_extract_desktop_file(req[i].file_path)
    /\ trace' = [trace EXCEPT ![i] = Ran(i, "DescriptorExtraction", TRUE)]
    /\ Goto(i, "find_desktop")
    /\ UNCHANGED <<settings, fileExec, icons, regDir, binaries, started, req,
                   inst_path, found, builder>>

\* Lines 48-51.
extract_desktop_err(i) ==
    /\ pc[i] = "extract_desktop"
    /\ trace' = [trace EXCEPT ![i] = Ran(i, "DescriptorExtraction", FALSE)]
    /\ Finish(i, Err("ExtractionError"))
    /\ UNCHANGED <<settings, fsVars, started, req, inst_path, found, builder>>

\* Lines 59-65: some descriptor file of squashfs-root is found.
find_desktop_ok(i) ==
    /\ pc[i] = "find_desktop"
    /\ scratch[squashfs_path(req[i].file_path)].exists
    /\ \E p \in scratch[squashfs_path(req[i].file_path)].desktops :
         found' = [found EXCEPT ![i] = Some(p)]
    /\ Goto(i, "parse")
    /\ UNCHANGED <<settings, fsVars, started, req, inst_path, builder, trace>>

\* Lines 66-68: squashfs-root cannot be read, or holds no descriptor file
\* (any more).
find_desktop_err(i) ==
    /\ pc[i] = "find_desktop"
    /\ Finish(i, Err("NotFound: desktop file"))
    /\ UNCHANGED <<settings, fsVars, started, req, inst_path, found, builder,
                   trace>>

\* Lines 72-79.
parse_ok(i) ==
    /\ pc[i] = "parse"
    /\ unwrap(found[i]) \in scratch[squashfs_path(req[i].file_path)].desktops
    /\ builder' = [builder EXCEPT ![i] = from_desktop_entry_path(unwrap(found[i]))]
    /\ Goto(i, "extract_all")
    /\ UNCHANGED <<settings, fsVars, started, req, inst_path, found, trace>>

\* Lines 80-82: the file cannot be read or parsed.
parse_err(i) ==
    /\ pc[i] = "parse"
    /\ Finish(i, Err("ParseError"))
    /\ UNCHANGED <<settings, fsVars, started, req, inst_path, found, builder,
                   trace>>

\* Lines 86-92.
extract_all_ok(i) ==
    /\ pc[i] = "extract_all"
    /\ scratch' = app_image_extract_all(req[i].file_path)
    /\ trace' = [trace EXCEPT ![i] = Ran(i, "ContentExtraction", TRUE)]
    /\ Goto(i, "install_icons")
    /\ UNCHANGED <<settings, fileExec, icons, regDir, binaries, started, req,
                   inst_path, found, builder>>

\* Lines 93-96.
extract_all_err(i) ==
    /\ pc[i] = "extract_all"
    /\ trace' = [trace EXCEPT ![i] = Ran(i, "ContentExtraction", FALSE)]
    /\ Finish(i, Err("ExtractionError"))
    /\ UNCHANGED <<settings, fsVars, started, req, inst_path, found, builder>>

\* Lines 100-105: an icon of the content tree is copied to the icon
\* directory.
install_icons_ok(i) ==
    /\ pc[i] = "install_icons"
    /\ scratch[squashfs_path(req[i].file_path)].exists
    /\ \E p \in scratch[squashfs_path(req[i].file_path)].content :
         icons' = icons \cup {p.icon}
    /\ trace' = [trace EXCEPT ![i] = Ran(i, "IconInstall", TRUE)]
    /\ Goto(i, "rewrite")
    /\ UNCHANGED <<settings, fileExec, scratch, regDir, binaries, started, req,
                   inst_path, found, builder>>

\* Lines 106-109.
install_icons_err(i) ==
    /\ pc[i] = "install_icons"
    /\ trace' = [trace EXCEPT ![i] = Ran(i, "IconInstall", FALSE)]
    /\ Finish(i, Err("IOError: icon"))
    /\ UNCHANGED <<settings, fsVars, started, req, inst_path, found, builder>>

\* Lines 113-123: set_exec, then find_desktop_file_location answers Err and
\* the ? operator returns it.
rewrite_location_err(i) ==
    /\ pc[i] = "rewrite"
    /\ builder' = [builder EXCEPT ![i] =
                      set_exec(@, ExecPath(inst_path[i], file_name(req[i].file_path)))]
    /\ trace' = [trace EXCEPT ![i] =
                    Ran(i, "DescriptorRewrite", TRUE)
                        \o <<[stage |-> "DescriptorPersist", ok |-> FALSE]>>]
    /\ Finish(i, Err("NotFound: desktop files location"))
    /\ UNCHANGED <<settings, fsVars, started, req, inst_path, found>>

\* Lines 113-127: set_exec, the location is found, and name() is None:
\* unwrap panics.
rewrite_name_panic(i) ==
    /\ pc[i] = "rewrite"
    /\ ~is_some(builder[i].name)
    /\ builder' = [builder EXCEPT ![i] =
                      set_exec(@, ExecPath(inst_path[i], file_name(req[i].file_path)))]
    /\ trace' = [trace EXCEPT ![i] =
                    Ran(i, "DescriptorRewrite", TRUE)
                        \o <<[stage |-> "DescriptorPersist", ok |-> FALSE]>>]
    /\ Finish(i, Panic("unwrap on None: name"))
    /\ UNCHANGED <<settings, fsVars, started, req, inst_path, found>>

\* Lines 113-133: set_exec, the destination path is made of the name, and the
\* no-sandbox flag is set when the request asks for it.
rewrite_ok(i) ==
    /\ pc[i] = "rewrite"
    /\ is_some(builder[i].name)
    /\ builder' = [builder EXCEPT ![i] =
          IF NoSandboxRequested(req[i])
          THEN set_no_sandbox(
                   set_exec(@, ExecPath(inst_path[i], file_name(req[i].file_path))),
                   TRUE)
          ELSE set_exec(@, ExecPath(inst_path[i], file_name(req[i].file_path)))]
    /\ trace' = [trace EXCEPT ![i] = Ran(i, "DescriptorRewrite", TRUE)]
    /\ Goto(i, "write_check")
    /\ UNCHANGED <<settings, fsVars, started, req, inst_path, found>>

\* write_to_file refuses a target that exists.
write_to_file_exists(name) == is_some(regDir[name])

\* Lines 140-142 without the return: the Err of write_to_file is dropped and
\* the invocation goes on to install_app_image.
write_check_exists_ignored(i) ==
    /\ pc[i] = "write_check"
    /\ write_to_file_exists(unwrap(builder[i].name))
    /\ trace' = [trace EXCEPT ![i] = Ran(i, "DescriptorPersist", FALSE)]
    /\ Goto(i, "install_app_image")
    /\ UNCHANGED <<settings, fsVars, started, req, inst_path, found, builder>>

\* Lines 136, 140-142: write_to_file finds the target and answers Err.
write_check_exists(i) ==
    /\ pc[i] = "write_check"
    /\ write_to_file_exists(unwrap(builder[i].name))
    /\ trace' = [trace EXCEPT ![i] = Ran(i, "DescriptorPersist", FALSE)]
    /\ Finish(i, Err("AlreadyInstalledError"))
    /\ UNCHANGED <<settings, fsVars, started, req, inst_path, found, builder>>

\* Line 136: write_to_file finds no target and goes on to create the file.
write_check_free(i) ==
    /\ pc[i] = "write_check"
    /\ ~write_to_file_exists(unwrap(builder[i].name))
    /\ Goto(i, "write_create")
    /\ UNCHANGED <<settings, fsVars, started, req, inst_path, found, builder,
                   trace>>

\* Lines 136-139: write_to_file creates the file.
write_create_ok(i) ==
    /\ pc[i] = "write_create"
    /\ regDir' = [regDir EXCEPT ![unwrap(builder[i].name)] =
                     Some(DescriptorFile(builder[i], i, @))]
    /\ trace' = [trace EXCEPT ![i] = Ran(i, "DescriptorPersist", TRUE)]
    /\ Goto(i, "install_app_image")
    /\ UNCHANGED <<settings, fileExec, scratch, icons, binaries, started, req,
                   inst_path, found, builder>>

\* Lines 136, 140-142: the file cannot be created.
write_create_err(i) ==
    /\ pc[i] = "write_create"
    /\ trace' = [trace EXCEPT ![i] = Ran(i, "DescriptorPersist", FALSE)]
    /\ Finish(i, Err("IOError: descriptor"))
    /\ UNCHANGED <<settings, fsVars, started, req, inst_path, found, builder>>

\* Lines 146-152: the package file, which must be executable, is put into the
\* install directory.
install_app_image_ok(i) ==
    /\ pc[i] = "install_app_image"
    /\ req[i].file_path \in fileExec
    /\ binaries' = binaries \cup
           {[path |-> InstalledBinaryPath(inst_path[i], req[i].file_path),
             exec |-> TRUE]}
    /\ trace' = [trace EXCEPT ![i] = Ran(i, "BinaryInstall", TRUE)]
    /\ Goto(i, "rm_dir_all")
    /\ UNCHANGED <<settings, fileExec, scratch, icons, regDir, started, req,
                   inst_path, found, builder>>

\* Lines 153-156 with a rollback: the descriptor just written is removed
\* before the error is returned.
install_app_image_err_rollback(i) ==
    /\ pc[i] = "install_app_image"
    /\ regDir' = [regDir EXCEPT ![unwrap(builder[i].name)] = None]
    /\ trace' = [trace EXCEPT ![i] = Ran(i, "BinaryInstall", FALSE)]
    /\ Finish(i, Err("IOError: binary"))
    /\ UNCHANGED <<settings, fileExec, scratch, icons, binaries, started, req,
                   inst_path, found, builder>>

\* Lines 153-156.
install_app_image_err(i) ==
    /\ pc[i] = "install_app_image"
    /\ trace' = [trace EXCEPT ![i] = Ran(i, "BinaryInstall", FALSE)]
    /\ Finish(i, Err("IOError: binary"))
    /\ UNCHANGED <<settings, fsVars, started, req, inst_path, found, builder>>

\* Lines 159-161: squashfs-root is removed and the command answers Ok.
rm_dir_all_ok(i) ==
    /\ pc[i] = "rm_dir_all"
    /\ scratch[squashfs_path(req[i].file_path)].exists
    /\ scratch' = [scratch EXCEPT ![squashfs_path(req[i].file_path)] = EmptyRoot]
    /\ trace' = [trace EXCEPT ![i] = Ran(i, "Cleanup", TRUE)]
    /\ Finish(i, Ok("Installation successful"))
    /\ UNCHANGED <<settings, fileExec, icons, regDir, binaries, started, req,
                   inst_path, found, builder>>

\* Line 159: rm_dir_all answers Err and expect panics.
rm_dir_all_err(i) ==
    /\ pc[i] = "rm_dir_all"
    /\ trace' = [trace EXCEPT ![i] = Ran(i, "Cleanup", FALSE)]
    /\ Finish(i, Panic("Failed to remove squashfs-root directory"))
    /\ UNCHANGED <<settings, fsVars, started, req, inst_path, found, builder>>

\* The steps of an invocation that has begun.
install_app_steps(i) ==
    \/ read_settings_err(i)
    \/ read_settings_none(i)
    \/ read_settings_ok(i)
    \/ extract_desktop_ok(i)
    \/ extract_desktop_err(i)
    \/ find_desktop_ok(i)
    \/ find_desktop_err(i)
    \/ parse_ok(i)
    \/ parse_err(i)
    \/ extract_all_ok(i)
    \/ extract_all_err(i)
    \/ install_icons_ok(i)
    \/ install_icons_err(i)
    \/ rewrite_location_err(i)
    \/ rewrite_name_panic(i)
    \/ rewrite_ok(i)
    \/ write_check_exists(i)
    \/ write_check_free(i)
    \/ write_create_ok(i)
    \/ write_create_err(i)
    \/ install_app_image_ok(i)
    \/ install_app_image_err(i)
    \/ rm_dir_all_ok(i)
    \/ rm_dir_all_err(i)

install_app(i) ==
    \/ install_app_begin(i)
    \/ install_app_steps(i)

\* ---------------------------------------------------------- uninstall_app

MaxUninstalls == 1

\* find_desktop_entry: the registered descriptor of that name, read back as
\* the path its Exec launches and its icon.
find_desktop_entry(name) ==
    IF is_some(regDir[name])
    THEN Some([exec |-> ExecTarget(unwrap(regDir[name]).exec),
               icon_path |-> unwrap(regDir[name]).icon])
    ELSE None

\* rm_file on a file of the install directory: whether there is one to
\* remove, and the directory without it.
BinaryAt(path) == \E b \in binaries : b.path = path

WithoutBinary(path) == {b \in binaries : b.path # path}

\* What uninstall_app answers at the end (lines 221-226).
Verdict(binary_gone, descriptor_gone) ==
    IF binary_gone /\ descriptor_gone
    THEN Ok("true")
    ELSE Err("Failed to remove app")

Tried(step, outcome) == Append(utrace, [step |-> step, outcome |-> outcome])

Outcome(removed) == IF removed THEN "removed" ELSE "not removed"

UFinish(r) ==
    /\ upc' = "done"
    /\ uresult' = r
    /\ UNCHANGED <<ustarted, app, desktop_entry, uBegin, installVars, storeVars>>

UGoto(label) ==
    /\ upc' = label
    /\ UNCHANGED <<ustarted, app, desktop_entry, uresult, uBegin, installVars, storeVars>>

\* Lines 171-177 answering Ok(true) where no descriptor is found.
find_desktop_entry_err_ok ==
    /\ upc \in {"idle", "done"}
    /\ ustarted < MaxUninstalls
    /\ \E n \in Names :
         /\ find_desktop_entry(n) = None
         /\ app' = n
    /\ ustarted' = ustarted + 1
    /\ upc' = "done"
    /\ uresult' = Ok("true")
    /\ desktop_entry' = NoEntry
    /\ app_removed' = None
    /\ icon_removed' = None
    /\ utrace' = <<>>
    /\ uBegin' = [regDir |-> regDir, binaries |-> binaries, icons |-> icons]
    /\ UNCHANGED <<icons, regDir, binaries, installVars, storeVars>>

\* Lines 171-177: the command is invoked and find_desktop_entry finds no
\* descriptor of that name; its Err is returned.
find_desktop_entry_err ==
    /\ upc \in {"idle", "done"}
    /\ ustarted < MaxUninstalls
    /\ \E n \in Names :
         /\ find_desktop_entry(n) = None
         /\ app' = n
    /\ ustarted' = ustarted + 1
    /\ upc' = "done"
    /\ uresult' = Err("NotFoundError")
    /\ desktop_entry' = NoEntry
    /\ app_removed' = None
    /\ icon_removed' = None
    /\ utrace' = <<>>
    /\ uBegin' = [regDir |-> regDir, binaries |-> binaries, icons |-> icons]
    /\ UNCHANGED <<icons, regDir, binaries, installVars, storeVars>>

\* Lines 171-179: the command is invoked and find_desktop_entry answers the
\* descriptor of that name.
find_desktop_entry_ok ==
    /\ upc \in {"idle", "done"}
    /\ ustarted < MaxUninstalls
    /\ \E n \in Names :
         /\ find_desktop_entry(n) # None
         /\ app' = n
         /\ desktop_entry' = unwrap(find_desktop_entry(n))
    /\ ustarted' = ustarted + 1
    /\ upc' = "rm_app"
    /\ uresult' = NoResult
    /\ app_removed' = None
    /\ icon_removed' = None
    /\ utrace' = <<>>
    /\ uBegin' = [regDir |-> regDir, binaries |-> binaries, icons |-> icons]
    /\ UNCHANGED <<icons, regDir, binaries, installVars, storeVars>>

\* Lines 182-186: rm_file answers Ok: true when it removed the binary, false
\* when there was none at that path.
rm_file_exec_ok ==
    /\ upc = "rm_app"
    /\ binaries' = WithoutBinary(desktop_entry.exec)
    /\ app_removed' = Some(BinaryAt(desktop_entry.exec))
    /\ utrace' = Tried("binary", Outcome(BinaryAt(desktop_entry.exec)))
    /\ UGoto("rm_icon")
    /\ UNCHANGED <<icons, regDir, icon_removed>>

\* Lines 187-190 going on to the other removals instead of returning.
rm_file_exec_err_continue ==
    /\ upc = "rm_app"
    /\ app_removed' = Some(FALSE)
    /\ utrace' = Tried("binary", "error")
    /\ UGoto("rm_icon")
    /\ UNCHANGED <<icons, regDir, binaries, icon_removed>>

\* Lines 187-190: rm_file answers Err, which is returned.
rm_file_exec_err ==
    /\ upc = "rm_app"
    /\ utrace' = Tried("binary", "error")
    /\ UFinish(Err("IOError: binary"))
    /\ UNCHANGED <<icons, regDir, binaries, app_removed, icon_removed>>

\* Lines 194-198, 205-207: rm_file answers Ok: true when it removed the
\* icon, false (a warning is logged) when there was none.
rm_file_icon_ok ==
    /\ upc = "rm_icon"
    /\ icons' = icons \ {desktop_entry.icon_path}
    /\ icon_removed' = Some(desktop_entry.icon_path \in icons)
    /\ utrace' = Tried("icon", Outcome(desktop_entry.icon_path \in icons))
    /\ UGoto("delete_desktop_file")
    /\ UNCHANGED <<regDir, binaries, app_removed>>

\* Lines 199-202: rm_file answers Err, which is returned.
rm_file_icon_err ==
    /\ upc = "rm_icon"
    /\ utrace' = Tried("icon", "error")
    /\ UFinish(Err("IOError: icon"))
    /\ UNCHANGED <<icons, regDir, binaries, app_removed, icon_removed>>

\* Lines 210-214, 221-226: delete_desktop_file_by_name answers Ok: true when
\* it removed the descriptor, false when there was none; then the verdict.
delete_desktop_file_ok ==
    /\ upc = "delete_desktop_file"
    /\ regDir' = [regDir EXCEPT ![app] = None]
    /\ utrace' = Tried("descriptor", Outcome(is_some(regDir[app])))
    /\ UFinish(Verdict(unwrap(app_removed), is_some(regDir[app])))
    /\ UNCHANGED <<icons, binaries, app_removed, icon_removed>>

\* Lines 215-218: delete_desktop_file_by_name answers Err, which is
\* returned.
delete_desktop_file_err ==
    /\ upc = "delete_desktop_file"
    /\ utrace' = Tried("descriptor", "error")
    /\ UFinish(Err("IOError: descriptor"))
    /\ UNCHANGED <<icons, regDir, binaries, app_removed, icon_removed>>

uninstall_app_begin ==
    \/ find_desktop_entry_err
    \/ find_desktop_entry_ok

\* The steps of an invocation that has located its descriptor.
uninstall_app_steps ==
    \/ rm_file_exec_ok
    \/ rm_file_exec_err
    \/ rm_file_icon_ok
    \/ rm_file_icon_err
    \/ delete_desktop_file_ok
    \/ delete_desktop_file_err

uninstall_app ==
    \/ uninstall_app_begin
    \/ uninstall_app_steps

\* ---------------------------------------------------------- store_service

MaxCalls == 4

MaxApps == 2

AppIds == {"firefox", "krita"}

\* The app lists the hub can answer.
RECURSIVE ListsUpTo(_)
ListsUpTo(n) ==
    IF n = 0
    THEN {<<>>}
    ELSE ListsUpTo(n - 1)
            \cup {Append(l, a) : l \in {x \in ListsUpTo(n - 1) : Len(x) = n - 1},
                                 a \in AppIds}

AppLists == ListsUpTo(MaxApps)

\* What fetch_all_apps_from_app_hub can answer (lines 69-84).
FetchAnswers ==
    {[tag |-> "Ok", app_list |-> l] : l \in AppLists}
        \cup {[tag |-> "Err", app_list |-> <<>>]}

\* Lines 23-33: the database update_app_database stores.
DatabaseOf(fetch) ==
    IF fetch.tag = "Ok"
    THEN [app_list |-> fetch.app_list]
    ELSE [app_list |-> <<>>]

\* serde_json::to_value of an AppDatabase: an object whose app_list is an
\* array of strings.
to_value(database) ==
    [kind |-> "object",
     key |-> "app_list",
     value |-> [kind |-> "array",
                items |-> [k \in 1..Len(database.app_list) |->
                              [kind |-> "string",
                               text |-> database.app_list[k]]]]]

\* serde_json::from_value::<AppDatabase>.
from_value(v) ==
    IF /\ v.kind = "object"
       /\ v.key = "app_list"
       /\ v.value.kind = "array"
       /\ \A k \in 1..Len(v.value.items) : v.value.items[k].kind = "string"
    THEN OkList([k \in 1..Len(v.value.items) |-> v.value.items[k].text])
    ELSE ErrList("invalid type")

Called(f) ==
    /\ calls < MaxCalls
    /\ calls' = calls + 1
    /\ last_call' = f
    /\ UNCHANGED <<installVars, uninstallVars, icons, regDir, binaries>>

\* Lines 27-41 keeping the stored database when the fetch fails.
update_app_database_fetch_failed_keep ==
    /\ Called("update_app_database")
    /\ store' = store
    /\ last_fetch' = [tag |-> "Err", app_list |-> <<>>]
    /\ update_result' = Ok("()")
    /\ UNCHANGED get_result

\* Lines 16-26, 35-41: the fetch answers Ok and its database is stored.
update_app_database_fetched ==
    /\ Called("update_app_database")
    /\ \E fetch \in {f \in FetchAnswers : f.tag = "Ok"} :
         /\ store' = Some(to_value(DatabaseOf(fetch)))
         /\ last_fetch' = fetch
    /\ update_result' = Ok("()")
    /\ UNCHANGED get_result

\* Lines 16-23, 27-41: the fetch answers Err and an empty database is
\* stored.
update_app_database_fetch_failed ==
    /\ Called("update_app_database")
    /\ \E fetch \in {f \in FetchAnswers : f.tag = "Err"} :
         /\ store' = Some(to_value(DatabaseOf(fetch)))
         /\ last_fetch' = fetch
    /\ update_result' = Ok("()")
    /\ UNCHANGED get_result

\* Lines 36-38: with_store answers Err and expect panics; nothing is stored.
update_app_database_store_err ==
    /\ Called("update_app_database")
    /\ update_result' = Panic("error saving default settings")
    /\ UNCHANGED <<store, last_fetch, get_result>>

\* Lines 44-61: the store holds no "app_database".
get_app_list_none ==
    /\ Called("get_app_list")
    /\ store = None
    /\ get_result' = ErrList("No database found")
    /\ UNCHANGED <<store, last_fetch, update_result>>

\* Lines 44-57, 62-65: the stored value is read back as an AppDatabase.
get_app_list_some ==
    /\ Called("get_app_list")
    /\ store # None
    /\ get_result' = from_value(unwrap(store))
    /\ UNCHANGED <<store, last_fetch, update_result>>

\* Lines 48-56: with_store answers Err, which is returned.
get_app_list_store_err ==
    /\ Called("get_app_list")
    /\ get_result' = ErrList("store error")
    /\ UNCHANGED <<store, last_fetch, update_result>>

update_app_database ==
    \/ update_app_database_fetched
    \/ update_app_database_fetch_failed
    \/ update_app_database_store_err

get_app_list ==
    \/ get_app_list_none
    \/ get_app_list_some
    \/ get_app_list_store_err

\* ---------------------------------------------------------- specifications

\* The host invokes install_app again and again, one invocation at a time.
Next == install_app(1)

Spec == Init /\ [][Next]_vars

\* The host runs two invocations of install_app concurrently.
NextConcurrent == \E i \in Installers : install_app(i)

SpecConcurrent == Init /\ [][NextConcurrent]_vars

\* The host invokes install_app and uninstall_app, one invocation at a time.
NextLifecycle ==
    \/ upc \in {"idle", "done"} /\ install_app_begin(1)
    \/ install_app_steps(1)
    \/ pc[1] \in {"idle", "done"} /\ uninstall_app_begin
    \/ uninstall_app_steps

SpecLifecycle == Init /\ [][NextLifecycle]_vars

\* The host runs install_app and uninstall_app concurrently.
NextRace ==
    \/ install_app(1)
    \/ uninstall_app

SpecRace == Init /\ [][NextRace]_vars

\* The host calls update_app_database and get_app_list, one call at a time.
NextStore ==
    \/ update_app_database
    \/ get_app_list

SpecStore == Init /\ [][NextStore]_vars

\* ------------------------------------------------- what the claims speak of

Done(i) == pc[i] = "done"

StageRan(i, s) == \E k \in 1..Len(trace[i]) : trace[i][k].stage = s

StageOk(i, s) ==
    \E k \in 1..Len(trace[i]) : trace[i][k].stage = s /\ trace[i][k].ok

StageFailed(i, s) ==
    \E k \in 1..Len(trace[i]) : trace[i][k].stage = s /\ ~trace[i][k].ok

TokenCount(e, t) == Cardinality({k \in 1..Len(e) : e[k] = t})

\* The invocation's descriptor carries the name of a descriptor that was
\* registered when the invocation began.
Collides(i) ==
    /\ is_some(builder[i].name)
    /\ is_some(atBegin[i].regDir[unwrap(builder[i].name)])

\* ----------------------------------------------------------------- claims

\* C1: the stages of an invocation run in the order PermissionGrant,
\* DescriptorExtraction, ContentExtraction, IconInstall, DescriptorRewrite,
\* DescriptorPersist, BinaryInstall, Cleanup, each at most once, and a stage
\* from DescriptorExtraction onward that fails is the last one to run and
\* the invocation returns an error.
C1_StagesInOrderFailureReturnsErr ==
    \A i \in Installers :
        /\ \A k, l \in 1..Len(trace[i]) :
              k < l => StageIndex(trace[i][k].stage) < StageIndex(trace[i][l].stage)
        /\ \A k \in 1..Len(trace[i]) :
              (trace[i][k].stage # "PermissionGrant" /\ ~trace[i][k].ok)
                  => /\ k = Len(trace[i])
                     /\ Done(i)
                     /\ result[i].tag = "Err"

\* C2: when install_app has returned success, exactly one descriptor file
\* exists for the package name, the path its exec launches is the path of an
\* executable binary, the one BinaryInstall put there, and its icon is an
\* installed icon.
C2_SuccessPostcondition ==
    \A i \in Installers :
        (Done(i) /\ result[i].tag = "Ok") =>
            /\ Cardinality({n \in Names :
                   is_some(regDir[n])
                   /\ unwrap(regDir[n]).name = unwrap(builder[i].name)}) = 1
            /\ is_some(regDir[unwrap(builder[i].name)])
            /\ \E b \in binaries :
                  /\ b.path = ExecTarget(unwrap(regDir[unwrap(builder[i].name)]).exec)
                  /\ b.path = InstalledBinaryPath(inst_path[i], req[i].file_path)
                  /\ b.exec
            /\ unwrap(regDir[unwrap(builder[i].name)]).icon \in icons

\* C3: an install whose descriptor name is the name of a descriptor already
\* registered never gets past DescriptorPersist: the registered descriptor
\* stays as it was, BinaryInstall and Cleanup do not run, and once
\* write_to_file has been called the invocation has returned
\* AlreadyInstalledError.
C3_CollisionAborts ==
    \A i \in Installers :
        Collides(i) =>
            /\ regDir[unwrap(builder[i].name)]
                  = atBegin[i].regDir[unwrap(builder[i].name)]
            /\ pc[i] \notin {"write_create", "install_app_image", "rm_dir_all"}
            /\ ~StageOk(i, "DescriptorPersist")
            /\ ~StageRan(i, "BinaryInstall")
            /\ ~StageRan(i, "Cleanup")
            /\ result[i].tag # "Ok"
            /\ (StageRan(i, "DescriptorPersist")
                  /\ result[i] # Err("NotFound: desktop files location"))
                    => result[i] = Err("AlreadyInstalledError")

\* C3's case: an install met a registered descriptor of its name and was
\* refused by write_to_file.
C3_Witness ==
    \E i \in Installers :
        /\ Collides(i)
        /\ Done(i)
        /\ result[i] = Err("AlreadyInstalledError")

\* C4: of two concurrent installs of one package name at most one passes
\* DescriptorPersist, and no descriptor file has been written by both.
C4_AtMostOnePersists ==
    /\ \A i, j \in Installers :
          (i # j /\ StageOk(i, "DescriptorPersist")
                 /\ StageOk(j, "DescriptorPersist"))
              => builder[i].name # builder[j].name
    /\ \A n \in Names :
          is_some(regDir[n]) => Cardinality(unwrap(regDir[n]).writers) <= 1

\* C5: once BinaryInstall has succeeded the invocation ends with the success
\* result, whatever the removal of squashfs-root does.
C5_CleanupFailureNotSurfaced ==
    \A i \in Installers :
        (Done(i) /\ StageOk(i, "BinaryInstall"))
            => result[i] = Ok("Installation successful")

\* C6: an invocation that aborts with an error after DescriptorExtraction
\* created squashfs-root has tried to remove squashfs-root.
C6_AbortRemovesScratch ==
    \A i \in Installers :
        (Done(i) /\ result[i].tag = "Err"
                 /\ StageOk(i, "DescriptorExtraction"))
            => \/ StageRan(i, "Cleanup")
               \/ ~scratch[squashfs_path(req[i].file_path)].exists

\* What C7 says of the descriptor, the icon and Cleanup: the invocation has
\* returned an error, the descriptor it wrote is still registered, an icon
\* is installed, Cleanup has not run and squashfs-root is still there.
C7_DescriptorLeft(i) ==
    /\ Done(i)
    /\ result[i].tag = "Err"
    /\ regDir[unwrap(builder[i].name)] = Some(DescriptorFile(builder[i], i, None))
    /\ StageOk(i, "IconInstall")
    /\ icons # {}
    /\ ~StageRan(i, "Cleanup")
    /\ scratch[squashfs_path(req[i].file_path)].exists

\* C7 as claimed: when BinaryInstall fails after DescriptorPersist succeeded,
\* the invocation has returned an error, the descriptor it wrote stays
\* registered and its exec names a binary that does not exist, the icon
\* stays and Cleanup is not run.
C7_OrphanedDescriptor ==
    \A i \in Installers :
        (StageOk(i, "DescriptorPersist") /\ StageFailed(i, "BinaryInstall")) =>
            /\ C7_DescriptorLeft(i)
            /\ ~\E b \in binaries :
                  b.path = ExecTarget(unwrap(regDir[unwrap(builder[i].name)]).exec)

\* C7 as amended: when BinaryInstall fails after DescriptorPersist succeeded,
\* the invocation has returned an error, the descriptor it wrote stays
\* registered, the install directory holds what it held when the invocation
\* began (the invocation has put no binary there), the icon stays and Cleanup
\* is not run; and the failing step itself leaves the registration directory,
\* the icons, the install directory and squashfs-root as they were.
C7_NoRollbackState ==
    \A i \in Installers :
        (StageOk(i, "DescriptorPersist") /\ StageFailed(i, "BinaryInstall")) =>
            /\ C7_DescriptorLeft(i)
            /\ binaries = atBegin[i].binaries

C7_NoRollbackStep ==
    \A i \in Installers :
        (pc[i] = "install_app_image" /\ pc'[i] = "done") =>
            /\ regDir' = regDir
            /\ icons' = icons
            /\ binaries' = binaries
            /\ scratch' = scratch

C7_BinaryInstallFailureKeepsDescriptor ==
    [](C7_NoRollbackState) /\ [][C7_NoRollbackStep]_vars

\* C7's case: the descriptor was written and BinaryInstall failed.
C7_Witness ==
    \E i \in Installers :
        /\ StageOk(i, "DescriptorPersist")
        /\ StageFailed(i, "BinaryInstall")
        /\ Done(i)

\* C8: when the settings service supplies no install directory the
\* invocation returns an error and runs no stage after PermissionGrant.
C8_NoInstallDirReturnsErr ==
    \A i \in Installers :
        (Done(i) /\ (settings.tag = "Err" \/ ~is_some(settings.install_path))) =>
            /\ result[i].tag = "Err"
            /\ \A k \in 1..Len(trace[i]) : trace[i][k].stage = "PermissionGrant"

\* C9: DescriptorRewrite sets exec to the install directory joined with the
\* file name by exactly one separator.
C9_ExecIsJoinedPath ==
    \A i \in Installers :
        StageOk(i, "DescriptorRewrite")
            => builder[i].exec = PathJoin(inst_path[i], file_name(req[i].file_path))

\* C10: the no-sandbox flag of the descriptor is set only when the request's
\* no_sandbox is Some(true), it is set in exactly that case when
\* write_to_file is called, and the exec of the descriptor file
\* written holds one no-sandbox token in that case and none otherwise.
C10_NoSandboxExactlyWhenRequested ==
    \A i \in Installers :
        /\ builder[i].no_sandbox => req[i].no_sandbox = Some(TRUE)
        /\ (pc[i] \in {"write_check", "write_create"}
               \/ StageOk(i, "DescriptorPersist"))
              => builder[i].no_sandbox = (req[i].no_sandbox = Some(TRUE))
        /\ StageOk(i, "DescriptorPersist") =>
              /\ is_some(regDir[unwrap(builder[i].name)])
              /\ TokenCount(unwrap(regDir[unwrap(builder[i].name)]).exec,
                            "--no-sandbox")
                    = IF req[i].no_sandbox = Some(TRUE) THEN 1 ELSE 0

\* C10's case: a request with no_sandbox = Some(true) has been installed.
C10_Witness ==
    \E i \in Installers :
        /\ req[i].no_sandbox = Some(TRUE)
        /\ Done(i)
        /\ result[i].tag = "Ok"
        /\ TokenCount(unwrap(regDir[unwrap(builder[i].name)]).exec,
                      "--no-sandbox") = 1

\* The settings service supplies an install directory.
SettingsUsable == settings.tag = "Ok" /\ is_some(settings.install_path)

\* C11: an invocation whose PermissionGrant failed has not returned because
\* of that: while it reads the settings it has no result, it ends before
\* DescriptorExtraction only when the settings supply no install directory,
\* and otherwise it goes on to DescriptorExtraction.
C11_GrantFailureNotFatal ==
    \A i \in Installers :
        (Len(trace[i]) >= 1 /\ ~trace[i][1].ok) =>
            /\ pc[i] = "read_settings" => result[i] = NoResult
            /\ (Done(i) /\ Len(trace[i]) = 1) => ~SettingsUsable
            /\ (SettingsUsable /\ pc[i] # "read_settings")
                  => \/ pc[i] = "extract_desktop"
                     \/ StageRan(i, "DescriptorExtraction")

\* C11's case: PermissionGrant failed and DescriptorExtraction has run.
C11_Witness ==
    \E i \in Installers :
        /\ Len(trace[i]) >= 1
        /\ ~trace[i][1].ok
        /\ StageOk(i, "DescriptorExtraction")

\* C12: an invocation that has reached its stages ends by returning the
\* success message or an error message, whatever the stages do and whatever
\* the embedded descriptor holds, and it has written no descriptor file when
\* the descriptor carries no name.
C12_FailuresReturnedAsErr ==
    \A i \in Installers :
        (Done(i) /\ StageRan(i, "DescriptorExtraction")) =>
            /\ result[i].tag \in {"Ok", "Err"}
            /\ ~is_some(builder[i].name) => regDir = atBegin[i].regDir

\* Invocations i and j are the only two there have been, and they install
\* different packages lying in the same directory.
TwoInstallsSameDir(i, j) ==
    /\ i # j
    /\ started = Cardinality(Installers)
    /\ pc[i] # "idle"
    /\ pc[j] # "idle"
    /\ req[i].file_path # req[j].file_path
    /\ parent(req[i].file_path) = parent(req[j].file_path)

\* The positions at which an invocation reads squashfs-root.
UsesScratch == {"find_desktop", "parse", "install_icons"}

\* C17: two concurrent installs of different packages of one directory do
\* not interfere through the squashfs-root they share: while both run, each
\* has found its own package's descriptor and has installed its own
\* package's icon, and squashfs-root is there whenever one of them reads it.
C17_NoScratchInterference ==
    \A i, j \in Installers :
        TwoInstallsSameDir(i, j) =>
            /\ (~Done(i) /\ ~Done(j) /\ is_some(found[i]))
                  => unwrap(found[i]) = PackageAt(req[i].file_path)
            /\ (~Done(i) /\ ~Done(j) /\ StageOk(i, "IconInstall"))
                  => PackageAt(req[i].file_path).icon \in icons
            /\ pc[i] \in UsesScratch
                  => scratch[squashfs_path(req[i].file_path)].exists

\* ------------------------------------------- what is claimed of uninstall

UDone == upc = "done"

\* The invocation found its descriptor (it has tried the binary's removal).
Located == utrace # <<>>

Attempted(step) == \E k \in 1..Len(utrace) : utrace[k].step = step

Removed(step) ==
    \E k \in 1..Len(utrace) :
        utrace[k].step = step /\ utrace[k].outcome = "removed"

\* The removal was tried and failed, as an error value or as 'not removed'.
FailedRemoval(step) ==
    \E k \in 1..Len(utrace) :
        utrace[k].step = step /\ utrace[k].outcome \in {"error", "not removed"}

\* C13: the step that invokes uninstall_app for a name without a registered
\* descriptor ends the invocation with NotFoundError, changes no file, and
\* no removal is ever tried by that invocation.
C13_UnknownNameStep ==
    (ustarted' = ustarted + 1 /\ ~is_some(regDir[app'])) =>
        /\ upc' = "done"
        /\ uresult' = Err("NotFoundError")
        /\ utrace' = <<>>
        /\ UNCHANGED fsVars

C13_UnknownNameNoMutation == [][C13_UnknownNameStep]_vars

\* C13's case: an invocation for an unregistered name has ended.
C13_Witness ==
    /\ UDone
    /\ ~Located
    /\ uresult = Err("NotFoundError")
    /\ ~is_some(uBegin.regDir[app])

\* C14: when the icon's removal failed, as an error value or as 'not
\* removed', the descriptor's removal has still been tried, and the
\* invocation answers success when binary and descriptor were removed.
C14_IconFailureNonFatal ==
    (UDone /\ FailedRemoval("icon")) =>
        /\ Attempted("descriptor")
        /\ (Removed("binary") /\ Removed("descriptor")) => uresult = Ok("true")

\* C15: an invocation that located its descriptor answers success only if
\* binary and descriptor were both removed, answers an error if either
\* removal failed, and answers an error only then (the icon's removal does
\* not decide).
C15_VerdictFromBinaryAndDescriptor ==
    (UDone /\ Located) =>
        /\ uresult = Ok("true") => (Removed("binary") /\ Removed("descriptor"))
        /\ (FailedRemoval("binary") \/ FailedRemoval("descriptor"))
              => uresult.tag = "Err"
        /\ uresult.tag = "Err"
              => (FailedRemoval("binary") \/ FailedRemoval("descriptor"))

\* C16: an invocation that located its descriptor has tried all three
\* removals by the time it ends, whatever the earlier ones answered.
C16_AllRemovalsAttempted ==
    (UDone /\ Located) =>
        /\ Attempted("binary")
        /\ Attempted("icon")
        /\ Attempted("descriptor")

InstallAndUninstallEnded ==
    /\ started = 1
    /\ ustarted = 1
    /\ Done(1)
    /\ UDone
    /\ result[1].tag = "Ok"
    /\ \A k \in 1..Len(utrace) : utrace[k].outcome # "error"
    /\ app = unwrap(builder[1].name)
    /\ ExecPath(inst_path[1], file_name(req[1].file_path))
          = InstalledBinaryPath(inst_path[1], req[1].file_path)

\* C18: after an install and an uninstall of the same package that ran
\* concurrently, the package is registered with its binary at the exec path,
\* or neither descriptor nor binary is there.
C18_RegisteredOrAbsent ==
    InstallAndUninstallEnded =>
        \/ /\ is_some(regDir[app])
           /\ BinaryAt(ExecTarget(unwrap(regDir[app]).exec))
        \/ /\ ~is_some(regDir[app])
           /\ ~BinaryAt(InstalledBinaryPath(inst_path[1], req[1].file_path))

\* ------------------------------------------------ what is claimed of the store

\* get_app_list was called last and its store operation succeeded.
GotList == last_call = "get_app_list" /\ get_result.msg # "store error"

\* C20: get_app_list answers 'No database found' exactly while no
\* update_app_database has returned, and otherwise the list of the last
\* update that returned: the fetched list, or the empty list when its fetch
\* failed; an update whose fetch failed answers Ok and leaves the empty
\* database in the store.
C20_GetReturnsLastUpdate ==
    /\ GotList =>
          get_result = IF last_fetch = NoFetch
                       THEN ErrList("No database found")
                       ELSE IF last_fetch.tag = "Ok"
                            THEN OkList(last_fetch.app_list)
                            ELSE OkList(<<>>)
    /\ (last_call = "update_app_database" /\ update_result.tag = "Ok"
            /\ last_fetch.tag = "Err")
          => store = Some(to_value([app_list |-> <<>>]))

\* C20's case: a list was fetched and stored, a later update's fetch failed,
\* and get_app_list has answered since.
C20_Witness ==
    /\ GotList
    /\ last_fetch.tag = "Err"
    /\ calls >= 3
    /\ get_result = OkList(<<>>)

====
